---------------------------- MODULE Spec2Model ----------------------------
(***************************************************************************)
(* A model of the ID3v2 tag reader of walnut (src/src/id3).                *)
(*                                                                         *)
(* A byte is an integer in 0..255, a buffer is a sequence of bytes, a      *)
(* decoded string is a sequence of code points.  The tag framer            *)
(* (parse_source, mod.rs) and the frame stream (Parser::next, v24.rs and   *)
(* the older Parser::next of mod.rs) are actions; everything they call is  *)
(* an operator computed the way the code computes it.  A panic of the      *)
(* code (unimplemented!(), a slice index out of range, an arithmetic       *)
(* overflow) is an outcome of its own, "Panic": the call does not return.  *)
(***************************************************************************)
EXTENDS Integers, Sequences, FiniteSets, TLC

VARIABLES
    source,     \* the bytes of the file handed to parse_source
    nread,      \* how many bytes of the source have been read
    tag,        \* what parse_source returned: [kind, ver]
    parser,     \* which Parser owns the frame buffer: "none", "v24", "mod"
    content,    \* Parser.content, the frame buffer
    cursor,     \* Parser.cursor
    pre,        \* the cursor before the last call of next
    last,       \* what the last call of next returned
    emitted,    \* how many Some(..) the calls of next have returned
    sync_in,    \* input of synchsafe_u32_to_u32 (specification SpecSync)
    sync_out    \* <<>> before the call, then <<its result>>

vars == <<source, nread, tag, parser, content, cursor, pre, last, emitted,
          sync_in, sync_out>>

-----------------------------------------------------------------------------
(* Fixed-width integer arithmetic.                                         *)

Pow2(n) == 2 ^ n

RECURSIVE BitAnd(_, _)
BitAnd(a, b) ==
    IF a = 0 \/ b = 0 THEN 0
    ELSE (a % 2) * (b % 2) + 2 * BitAnd(a \div 2, b \div 2)

RECURSIVE BitOr(_, _)
BitOr(a, b) ==
    IF a = 0 THEN b
    ELSE IF b = 0 THEN a
    ELSE (IF (a % 2) + (b % 2) > 0 THEN 1 ELSE 0) + 2 * BitOr(a \div 2, b \div 2)

Shl16(a, n) == (a * Pow2(n)) % Pow2(16)

\* A u32 is the pair <<high 16 bits, low 16 bits>>: the model checker's own
\* integers are signed 32-bit and cannot hold 0xf8_00_00_00.
U32(hi, lo) == <<hi, lo>>

And32(a, b) == <<BitAnd(a[1], b[1]), BitAnd(a[2], b[2])>>

Or32(a, b) == <<BitOr(a[1], b[1]), BitOr(a[2], b[2])>>

\* a >> n on u32, for 0 <= n < 16
Shr32(a, n) ==
    <<a[1] \div Pow2(n), (a[2] \div Pow2(n)) + (a[1] % Pow2(n)) * Pow2(16 - n)>>

\* the value of a u32 below 2^31 (`as usize`)
ToInt(a) == a[1] * Pow2(16) + a[2]

\* BigEndian::read_u32 / read_u16 of byteorder
read_u32(b) == U32(b[1] * Pow2(8) + b[2], b[3] * Pow2(8) + b[4])

read_u16(b) == b[1] * Pow2(8) + b[2]

\* bitflags' contains and from_bits_truncate
contains(flags, bit) == BitAnd(flags, bit) = bit

from_bits_truncate(known, raw) == BitAnd(raw, known)

\* the slice s[from..to] of Rust (0-based, to exclusive), for 0 <= from <= to <= len
Slice(s, from, to) == SubSeq(s, from + 1, to)

\* whether s[from..to] is a slice Rust accepts; otherwise indexing panics
SliceOk(s, from, to) == 0 <= from /\ from <= to /\ to <= Len(s)

-----------------------------------------------------------------------------
(* Synchsafe integers (mod.rs).  The masks are those of the source:        *)
(* 0x00_00_00_ff, 0x00_00_01_00, 0x00_00_fe_00, 0x00_03_00_00,             *)
(* 0x00_fc_00_00, 0x07_00_00_00, 0xf8_00_00_00.                            *)

\* synchsafe_u32_to_u32 with the 0x07_00_00_00 group shifted by 2, not by 3
synchsafe_shift_bug(sync_int) ==
    LET low      == Or32(And32(sync_int, U32(0, 255)),
                         Shr32(And32(sync_int, U32(0, 256)), 1))
        mid_low  == Or32(Shr32(And32(sync_int, U32(0, 65024)), 1),
                         Shr32(And32(sync_int, U32(3, 0)), 2))
        mid_high == Or32(Shr32(And32(sync_int, U32(252, 0)), 2),
                         Shr32(And32(sync_int, U32(1792, 0)), 2))
        high     == Shr32(And32(sync_int, U32(63488, 0)), 3)
    IN  ToInt(Or32(Or32(Or32(high, mid_high), mid_low), low))

synchsafe_u32_to_u32(sync_int) ==
    LET low      == Or32(And32(sync_int, U32(0, 255)),
                         Shr32(And32(sync_int, U32(0, 256)), 1))
        mid_low  == Or32(Shr32(And32(sync_int, U32(0, 65024)), 1),
                         Shr32(And32(sync_int, U32(3, 0)), 2))
        mid_high == Or32(Shr32(And32(sync_int, U32(252, 0)), 2),
                         Shr32(And32(sync_int, U32(1792, 0)), 3))
        high     == Shr32(And32(sync_int, U32(63488, 0)), 3)
    IN  ToInt(Or32(Or32(Or32(high, mid_high), mid_low), low))

-----------------------------------------------------------------------------
(* Flag bits (bitflags! of mod.rs and v24.rs).                             *)

TAG_UNSYNCHRONIZED == 128
TAG_EXTENDED_HEADER == 64
TAG_EXPERIMENTAL_INDICATOR == 32
TAG_FOOTER_PRESENT == 16

V24_TAG_FLAGS == 240
V23_TAG_FLAGS == 224
V22_TAG_FLAGS == 192

CRC_DATA_PRESENT == 32
TAG_RESTRICTIONS == 16

TAG_ALTER_PRESERVATION == 16384
FILE_ALTER_PRESERVATION == 8192
READ_ONLY == 4096
GROUPING_IDENTITY == 64
COMPRESSION == 8
ENCRYPTION == 4
UNSYNCHRONIZATION == 2
DATA_LENGTH_INDICATOR == 1

FRAME_FLAGS == 28751

-----------------------------------------------------------------------------
(* The tag framer (mod.rs).                                                *)

ID3 == <<73, 68, 51>>

\* What a function returns that produces no further data.
TagResult(kind, ver, n, frames) ==
    [kind |-> kind, ver |-> ver, nread |-> n, content |-> frames]

\* parse_header with the arm for major version 3 building a v2.4 header
parse_header_accepts_v23(header) ==
    LET major_version == header[1]
        revision      == header[2]
        raw_flags     == header[3]
    IN  IF major_version \in {3, 4}
        THEN [ok |-> TRUE, version |-> 4, revision |-> revision,
              flags |-> from_bits_truncate(V24_TAG_FLAGS, raw_flags),
              size |-> synchsafe_u32_to_u32(read_u32(Slice(header, 3, 7)))]
        ELSE IF major_version = 2
        THEN [ok |-> TRUE, version |-> 2, revision |-> revision,
              flags |-> from_bits_truncate(V22_TAG_FLAGS, raw_flags),
              size |-> synchsafe_u32_to_u32(read_u32(Slice(header, 3, 7)))]
        ELSE [ok |-> FALSE, version |-> major_version, revision |-> revision,
              flags |-> 0, size |-> 0]

\* parse_header, given the seven bytes after "ID3": Ok(Header) or Err(UnsupportedVersion)
parse_header(header) ==
    LET major_version == header[1]
        revision      == header[2]
        raw_flags     == header[3]
        known         == CASE major_version = 2 -> V22_TAG_FLAGS
                           [] major_version = 3 -> V23_TAG_FLAGS
                           [] OTHER             -> V24_TAG_FLAGS
    IN  IF major_version \in {2, 3, 4}
        THEN [ok |-> TRUE, version |-> major_version, revision |-> revision,
              flags |-> from_bits_truncate(known, raw_flags),
              size |-> synchsafe_u32_to_u32(read_u32(Slice(header, 3, 7)))]
        ELSE [ok |-> FALSE, version |-> major_version, revision |-> revision,
              flags |-> 0, size |-> 0]

\* parse_source reading the rest of the source (read_to_end) instead of
\* exactly header.size bytes
parse_source_frames_read_to_end(src, header) ==
    IF header.version = 4
    THEN IF \/ contains(header.flags, TAG_UNSYNCHRONIZED)
            \/ contains(header.flags, TAG_EXTENDED_HEADER)
            \/ contains(header.flags, TAG_EXPERIMENTAL_INDICATOR)
            \/ contains(header.flags, TAG_FOOTER_PRESENT)
         THEN TagResult("Panic", 0, 10, <<>>)
         ELSE TagResult("Ok", 4, Len(src), Slice(src, 10, Len(src)))
    ELSE IF header.version = 3
    THEN TagResult("UnsupportedVersion", 3, 10, <<>>)
    ELSE TagResult("UnsupportedVersion", 2, 10, <<>>)

\* parse_source after parse_header returned Ok(header): the `match header.flags`
\* and the read of the frame buffer
parse_source_frames(src, header) ==
    IF header.version = 4
    THEN \* revision > 0 only logs a warning
         IF \/ contains(header.flags, TAG_UNSYNCHRONIZED)
            \/ contains(header.flags, TAG_EXTENDED_HEADER)
            \/ contains(header.flags, TAG_EXPERIMENTAL_INDICATOR)
            \/ contains(header.flags, TAG_FOOTER_PRESENT)
         THEN TagResult("Panic", 0, 10, <<>>)                   \* unimplemented!()
         ELSE IF Len(src) - 10 < header.size
         THEN TagResult("Io", 0, Len(src), <<>>)
         ELSE TagResult("Ok", 4, 10 + header.size, Slice(src, 10, 10 + header.size))
    ELSE IF header.version = 3
    THEN TagResult("UnsupportedVersion", 3, 10, <<>>)
    ELSE TagResult("UnsupportedVersion", 2, 10, <<>>)

\* `parse_header(&header[3..])?` and what follows it
parse_source_header(src, header) ==
    IF ~header.ok THEN TagResult("UnsupportedVersion", header.version, 10, <<>>)
    ELSE parse_source_frames(src, header)

\* parse_source on the bytes src: what it returns (or "Panic"), how many bytes it
\* has read by then, and the frame buffer of the Parser it builds.
\* source.read_exact fails with an io::Error when the source is too short.
parse_source_result(src) ==
    IF Len(src) < 10 THEN TagResult("Io", 0, Len(src), <<>>)
    ELSE IF Slice(src, 0, 3) # ID3
    THEN \* `if true { unimplemented!() } else { return Err(NoTag) }`
         IF TRUE THEN TagResult("Panic", 0, 10, <<>>)
                 ELSE TagResult("NoTag", 0, 10, <<>>)
    ELSE parse_source_header(src, parse_header(Slice(src, 3, 10)))

-----------------------------------------------------------------------------
(* Results.  Ok(v), Err(reason) as in Rust; Panic: the call never returns. *)

Ok(v) == [kind |-> "Ok", reason |-> "", value |-> v]

Err(reason) == [kind |-> "Err", reason |-> reason, value |-> <<>>]

ErrWith(reason, v) == [kind |-> "Err", reason |-> reason, value |-> v]

Panic == [kind |-> "Panic", reason |-> "", value |-> <<>>]

\* The `?` of Rust is written out: a result that is not Ok (an error, or a
\* panic) is what the function returns.  An operator's arguments are
\* evaluated when the body first uses them, so a later step is not computed
\* when an earlier one failed.

\* `vec![item?]` and `Some(item?)`
One(item) == IF item.kind # "Ok" THEN item ELSE Ok(<<item.value>>)

\* head?, then tail?, pushed on one vector
Cons(head, tail) ==
    IF head.kind # "Ok" THEN head
    ELSE IF tail.kind # "Ok" THEN tail
    ELSE Ok(<<head.value>> \o tail.value)

\* Result::map_err with the From conversion to the error e
MapErr(r, e) == IF r.kind = "Err" THEN e ELSE r

-----------------------------------------------------------------------------
(* Unicode: std::str::from_utf8, String::from_utf16, and a String's bytes. *)

IsCont(b) == b >= 128 /\ b <= 191

\* the length of the UTF-8 sequence a first byte announces, 0 if it starts none
Utf8Width(c) ==
    CASE c < 128               -> 1
      [] c >= 194 /\ c <= 223  -> 2
      [] c >= 224 /\ c <= 239  -> 3
      [] c >= 240 /\ c <= 244  -> 4
      [] OTHER                 -> 0

\* the range allowed for the second byte of a sequence starting with c
Utf8SecondOk(c, b2) ==
    CASE c = 224 -> b2 >= 160 /\ b2 <= 191
      [] c = 237 -> b2 >= 128 /\ b2 <= 159
      [] c = 240 -> b2 >= 144 /\ b2 <= 191
      [] c = 244 -> b2 >= 128 /\ b2 <= 143
      [] OTHER   -> IsCont(b2)

\* the char a valid sequence of n bytes at b[i] encodes
Utf8CodePoint(b, i, n) ==
    CASE n = 1 -> b[i]
      [] n = 2 -> (b[i] - 192) * 64 + (b[i + 1] - 128)
      [] n = 3 -> (b[i] - 224) * 4096 + (b[i + 1] - 128) * 64 + (b[i + 2] - 128)
      [] OTHER -> (b[i] - 240) * 262144 + (b[i + 1] - 128) * 4096
                  + (b[i + 2] - 128) * 64 + (b[i + 3] - 128)

\* whether n bytes at b[i] are one well-formed sequence
Utf8SequenceOk(b, i, n) ==
    /\ n # 0
    /\ i + n - 1 <= Len(b)
    /\ n >= 2 => Utf8SecondOk(b[i], b[i + 1])
    /\ \A k \in 2 .. (n - 1) : IsCont(b[i + k])

NoChars == [ok |-> FALSE, chars |-> <<>>]

\* one more char in front of the chars decoded after it
ConsChar(cp, rest) ==
    [ok |-> rest.ok, chars |-> IF rest.ok THEN <<cp>> \o rest.chars ELSE <<>>]

RECURSIVE Utf8Chars(_, _)
Utf8From(b, i, n) ==
    IF ~Utf8SequenceOk(b, i, n) THEN NoChars
    ELSE ConsChar(Utf8CodePoint(b, i, n), Utf8Chars(b, i + n))

\* the chars of the bytes b from index i on (1-based), or ok = FALSE
Utf8Chars(b, i) ==
    IF i > Len(b) THEN [ok |-> TRUE, chars |-> <<>>]
    ELSE Utf8From(b, i, Utf8Width(b[i]))

\* Result<.., Utf8Error> / Result<.., FromUtf16Error> as the decoders see it
CharsResult(r, reason) == IF r.ok THEN Ok(r.chars) ELSE Err(reason)

from_utf8(bytes) == CharsResult(Utf8Chars(bytes, 1), "InvalidUtf8")

IsHighSurrogate(u) == u >= 55296 /\ u <= 56319

IsLowSurrogate(u) == u >= 56320 /\ u <= 57343

\* the chars of the code units u from index i on, or ok = FALSE
RECURSIVE Utf16Chars(_, _)
Utf16Chars(u, i) ==
    IF i > Len(u) THEN [ok |-> TRUE, chars |-> <<>>]
    ELSE IF IsLowSurrogate(u[i]) THEN NoChars
    ELSE IF IsHighSurrogate(u[i])
    THEN IF i + 1 > Len(u) \/ ~IsLowSurrogate(u[i + 1]) THEN NoChars
         ELSE ConsChar(65536 + (u[i] - 55296) * 1024 + (u[i + 1] - 56320),
                       Utf16Chars(u, i + 2))
    ELSE ConsChar(u[i], Utf16Chars(u, i + 1))

from_utf16(units) == CharsResult(Utf16Chars(units, 1), "InvalidUtf16")

\* the UTF-8 bytes of one char
CharBytes(cp) ==
    CASE cp < 128   -> <<cp>>
      [] cp < 2048  -> <<192 + (cp \div 64), 128 + (cp % 64)>>
      [] cp < 65536 -> <<224 + (cp \div 4096), 128 + ((cp \div 64) % 64),
                         128 + (cp % 64)>>
      [] OTHER      -> <<240 + (cp \div 262144), 128 + ((cp \div 4096) % 64),
                         128 + ((cp \div 64) % 64), 128 + (cp % 64)>>

\* the bytes a String holds (its chars in UTF-8)
RECURSIVE StrBytes(_)
StrBytes(chars) ==
    IF chars = <<>> THEN <<>> ELSE CharBytes(Head(chars)) \o StrBytes(Tail(chars))

\* str::is_char_boundary on the bytes of a String
is_char_boundary(bytes, idx) ==
    \/ idx = 0
    \/ idx = Len(bytes)
    \/ idx < Len(bytes) /\ ~IsCont(bytes[idx + 1])

-----------------------------------------------------------------------------
(* The text encoding engine (v24.rs).                                      *)

\* TextEncoding::try_from
TextEncoding_try_from(v) ==
    CASE v = 0 -> Ok("ISO8859")
      [] v = 1 -> Ok("UTF16BOM")
      [] v = 2 -> Ok("UTF16BE")
      [] v = 3 -> Ok("UTF8")
      [] OTHER -> ErrWith("UnknownEncoding", v)

has_two_trailing_nulls(encoding) == encoding = "UTF16BOM" \/ encoding = "UTF16BE"

get_trailing_null_slice(encoding) ==
    IF has_two_trailing_nulls(encoding) THEN <<0, 0>> ELSE <<0>>

\* bytes.chunks_exact(w): the i-th chunk (i from 0), and how many there are
Chunk(bytes, w, i) == Slice(bytes, i * w, i * w + w)

NChunks(bytes, w) == Len(bytes) \div w

\* .chunks_exact(w).enumerate().filter(|x| x == separator).map(|i| i * w):
\* the byte offsets of the chunks that equal the separator
SeparatorOffsets(bytes, separator) ==
    LET w == Len(separator)
    IN  {i * w : i \in {j \in 0 .. (NChunks(bytes, w) - 1) :
                          Chunk(bytes, w, j) = separator}}

SetMin(S) == CHOOSE x \in S : \A y \in S : x <= y

\* .chunks_exact(w).position(|x| x == separator).map(|x| x * w): <<>> is None
FirstSeparator(bytes, separator) ==
    LET offs == SeparatorOffsets(bytes, separator)
    IN  IF offs = {} THEN <<>> ELSE <<SetMin(offs)>>

\* `(u16::from(c[1]) << 8) & u16::from(c[0])`, as the source has it
be_unit(c0, c1) == BitAnd(Shl16(c1, 8), c0)

\* copy_nonoverlapping of the bytes into the u16 buffer: the unit the target
\* reads from two bytes in memory order (little-endian: the program's host
\* is x86, main.rs walks C:\music)
native_unit(c0, c1) == c0 + c1 * 256

\* the u16 buffer of a slice of even length, by the given unit function
BeUnits(text_slice) ==
    [i \in 1 .. (Len(text_slice) \div 2) |->
        be_unit(text_slice[2 * i - 1], text_slice[2 * i])]

NativeUnits(text_slice) ==
    [i \in 1 .. (Len(text_slice) \div 2) |->
        native_unit(text_slice[2 * i - 1], text_slice[2 * i])]

decode_text_segment(encoding, text_slice) ==
    CASE encoding = "ISO8859" -> Ok(text_slice)
      [] encoding = "UTF16BOM" ->
            IF Len(text_slice) % 2 # 0 THEN Err("InvalidUtf16")
            ELSE IF ~SliceOk(text_slice, 0, 2) THEN Panic   \* text_slice[0..2]
            ELSE IF Slice(text_slice, 0, 2) = <<254, 255>>
            THEN from_utf16(Tail(BeUnits(text_slice)))
            ELSE from_utf16(Tail(NativeUnits(text_slice)))
      [] encoding = "UTF16BE" ->
            IF Len(text_slice) % 2 # 0 THEN Err("InvalidUtf16")
            ELSE from_utf16(BeUnits(text_slice))
      [] OTHER -> from_utf8(text_slice)

\* decode_text_segments with the first separator of text_slice found at pos
\* (<<>>: none), w the separator's length
RECURSIVE decode_text_segments(_, _)
SegmentsAt(encoding, text_slice, w, pos) ==
    IF pos # <<>>
    THEN Cons(decode_text_segment(encoding, Slice(text_slice, 0, pos[1])),
              decode_text_segments(encoding,
                                   Slice(text_slice, pos[1] + w, Len(text_slice))))
    ELSE IF text_slice # <<>>
    THEN \* more text, but no null terminator
         One(decode_text_segment(encoding, text_slice))
    ELSE Ok(<<>>)

decode_text_segments(encoding, text_slice) ==
    SegmentsAt(encoding, text_slice, Len(get_trailing_null_slice(encoding)),
               FirstSeparator(text_slice, get_trailing_null_slice(encoding)))

\* decode_text_frame after `TextEncoding::try_from(frame[0])` returned encoding
TextFrameIn(encoding, frame) ==
    IF encoding.kind # "Ok" THEN encoding
    ELSE decode_text_segments(encoding.value, Slice(frame, 1, Len(frame)))

\* "Panics if frame is 0 length."
decode_text_frame(frame) ==
    IF Len(frame) = 0 THEN Panic                      \* frame[0]
    ELSE TextFrameIn(TextEncoding_try_from(frame[1]), frame)

-----------------------------------------------------------------------------
(* Value parsers (v24.rs and core::num).                                   *)

IsDigit(b) == b >= 48 /\ b <= 57

RECURSIVE StripZeros(_)
StripZeros(digits) ==
    IF digits # <<>> /\ Head(digits) = 48 THEN StripZeros(Tail(digits)) ELSE digits

RECURSIVE DigitsValue(_)
DigitsValue(digits) ==
    IF digits = <<>> THEN 0
    ELSE DigitsValue(SubSeq(digits, 1, Len(digits) - 1)) * 10
         + (digits[Len(digits)] - 48)

\* whether the numeral a (no leading zeros) is greater than the numeral b
RECURSIVE NumeralGreater(_, _)
NumeralGreater(a, b) ==
    IF Len(a) # Len(b) THEN Len(a) > Len(b)
    ELSE IF a = <<>> THEN FALSE
    ELSE IF Head(a) # Head(b) THEN Head(a) > Head(b)
    ELSE NumeralGreater(Tail(a), Tail(b))

\* u8::MAX, u16::MAX, u64::MAX as decimal numerals
U8_MAX == <<50, 53, 53>>

U16_MAX == <<54, 53, 53, 51, 53>>

U64_MAX ==
    <<49, 56, 52, 52, 54, 55, 52, 52, 48, 55, 51, 55, 48, 57, 53, 53, 49, 54, 49, 53>>

\* the value of a numeral without leading zeros, if the type holds it: an
\* integer when it has at most nine digits, else the numeral itself
NumeralValue(numeral, max) ==
    IF NumeralGreater(numeral, max) THEN Err("ParseIntError")
    ELSE IF Len(numeral) <= 9 THEN Ok(DigitsValue(numeral))
    ELSE Ok(numeral)

UnsignedOf(digits, max) ==
    IF digits = <<>> \/ \E i \in 1 .. Len(digits) : ~IsDigit(digits[i])
    THEN Err("ParseIntError")
    ELSE NumeralValue(StripZeros(digits), max)

\* str::parse for an unsigned integer type whose largest value is the numeral
\* max: an optional '+', then one or more decimal digits, no overflow
parse_unsigned(bytes, max) ==
    UnsignedOf(IF bytes # <<>> /\ bytes[1] = 43 /\ Len(bytes) > 1
               THEN Tail(bytes) ELSE bytes, max)

\* str::get(from..to) on the bytes of a str: <<>> is None, else <<slice>>
str_get(bytes, from, to) ==
    IF SliceOk(bytes, from, to) /\ is_char_boundary(bytes, from)
       /\ is_char_boundary(bytes, to)
    THEN <<Slice(bytes, from, to)>> ELSE <<>>

\* `Some(v) => v?, None => return Err(ParseDateError::MissingYear)`
DateYear(got) ==
    IF got = <<>> THEN ErrWith("ParseDateError", "MissingYear")
    ELSE MapErr(parse_unsigned(got[1], U16_MAX),
                ErrWith("ParseDateError", "ParseIntError"))

\* `Some(v) => Some(v?), None => None`: Ok(<<>>) is None, Ok(<<v>>) is Some(v)
DateField(got) ==
    IF got = <<>> THEN Ok(<<>>)
    ELSE One(MapErr(parse_unsigned(got[1], U8_MAX),
                    ErrWith("ParseDateError", "ParseIntError")))

\* the Date of the six fields, each parsed in turn
DateFrom(year, month, day, hour, minutes, seconds) ==
    IF year.kind # "Ok" THEN year
    ELSE IF month.kind # "Ok" THEN month
    ELSE IF day.kind # "Ok" THEN day
    ELSE IF hour.kind # "Ok" THEN hour
    ELSE IF minutes.kind # "Ok" THEN minutes
    ELSE IF seconds.kind # "Ok" THEN seconds
    ELSE Ok([year |-> year.value, month |-> month.value, day |-> day.value,
             hour |-> hour.value, minutes |-> minutes.value,
             seconds |-> seconds.value])

\* Date::from_str reading the month at [4, 6), next to the year
DateOf_month_after_year(s) ==
    DateFrom(DateYear(str_get(s, 0, 4)), DateField(str_get(s, 4, 6)),
             DateField(str_get(s, 8, 10)), DateField(str_get(s, 11, 13)),
             DateField(str_get(s, 14, 16)), DateField(str_get(s, 17, 19)))

DateOf(s) ==
    DateFrom(DateYear(str_get(s, 0, 4)), DateField(str_get(s, 5, 7)),
             DateField(str_get(s, 8, 10)), DateField(str_get(s, 11, 13)),
             DateField(str_get(s, 14, 16)), DateField(str_get(s, 17, 19)))

\* <Date as FromStr>::from_str, on the chars of the string
Date_from_str(chars) == DateOf(StrBytes(chars))

\* the offset of the first byte equal to b, <<>> if there is none
BytePosition(bytes, b) ==
    IF \A i \in 1 .. Len(bytes) : bytes[i] # b THEN <<>>
    ELSE <<SetMin({i \in 1 .. Len(bytes) : bytes[i] = b}) - 1>>

InvalidTrackNumber == ErrWith("ParseTrackError", "InvalidTrackNumber")

\* the Track of the two numbers; max is Ok(<<>>) when there is no '/'
TrackFrom(number, max) ==
    IF number.kind # "Ok" THEN number
    ELSE IF max.kind # "Ok" THEN max
    ELSE Ok([number |-> number.value, max |-> max.value])

\* Track::from_str with the first '/' of s at slash (<<>>: none)
TrackAt(s, slash) ==
    IF slash = <<>>
    THEN TrackFrom(MapErr(parse_unsigned(s, U64_MAX), InvalidTrackNumber), Ok(<<>>))
    ELSE TrackFrom(MapErr(parse_unsigned(Slice(s, 0, slash[1]), U64_MAX),
                          InvalidTrackNumber),
                   One(MapErr(parse_unsigned(Slice(s, slash[1] + 1, Len(s)), U64_MAX),
                              InvalidTrackNumber)))

TrackOf(s) == TrackAt(s, BytePosition(s, 47))

\* <Track as FromStr>::from_str: s.splitn(2, '/')
Track_from_str(chars) == TrackOf(StrBytes(chars))

\* item.parse::<u64>()
u64_from_str(chars) == parse_unsigned(StrBytes(chars), U64_MAX)

\* <T as FromStr>::from_str for the item types that map_parse is used with
from_str(T, item) ==
    CASE T = "u64" -> u64_from_str(item)
      [] T = "Date" -> Date_from_str(item)
      [] T = "Track" -> Track_from_str(item)

\* map_parse::<T>: parse every string of the vector, stop at the first error
RECURSIVE map_parse(_, _)
map_parse(T, str_vec) ==
    IF str_vec = <<>> THEN Ok(<<>>)
    ELSE Cons(from_str(T, Head(str_vec)), map_parse(T, Tail(str_vec)))

-----------------------------------------------------------------------------
(* Frame decoders (v24.rs).                                                *)

\* decode_copyright_frame dropping the byte after the year, space or not
CopyrightFrom_drops_fifth_byte(year, bytes) ==
    IF year.kind # "Ok" THEN year
    ELSE Ok([year |-> year.value,
             message |-> Utf8Chars(Slice(bytes, 5, Len(bytes)), 1).chars])

\* the Copyright of the parsed year and the rest of the text
CopyrightFrom(year, bytes) ==
    IF year.kind # "Ok" THEN year
    ELSE Ok([year |-> year.value,
             message |->
                Utf8Chars(Slice(bytes,
                                IF Len(bytes) > 4 /\ bytes[5] = 32 THEN 5 ELSE 4,
                                Len(bytes)), 1).chars])

CopyrightOf(bytes) ==
    IF Len(bytes) < 4 THEN Err("FrameTooSmall")
    ELSE IF ~is_char_boundary(bytes, 4) THEN Panic              \* text[0..4]
    ELSE CopyrightFrom(parse_unsigned(Slice(bytes, 0, 4), U16_MAX), bytes)

\* decode_copyright_frame, on the chars of one decoded segment
decode_copyright_frame(text) == CopyrightOf(StrBytes(text))

\* decode_url_frame returns a String, never an error
decode_url_frame(frame) ==
    IF Len(frame) = 0 THEN Panic                    \* frame[frame.len() - 1]
    ELSE IF frame[Len(frame)] = 0 THEN Ok(Slice(frame, 0, Len(frame) - 1))
    ELSE Ok(frame)

decode_reverb_frame(frame) ==
    IF Len(frame) < 12 THEN Err("FrameTooSmall")
    ELSE Ok([ms_left |-> read_u16(Slice(frame, 0, 2)),
             ms_right |-> read_u16(Slice(frame, 2, 4)),
             bounces_left |-> frame[5], bounces_right |-> frame[6],
             feedback_left_to_left |-> frame[7], feedback_left_to_right |-> frame[8],
             feedback_right_to_right |-> frame[9], feedback_right_to_left |-> frame[10],
             premix_left_to_right |-> frame[11], premix_right_to_left |-> frame[12]])

PrivAt(frame_bytes, owner_end) ==
    IF owner_end = <<>> THEN Err("MissingNullTerminator")
    ELSE Ok([owner |-> Slice(frame_bytes, 0, owner_end[1]),
             data |-> Slice(frame_bytes, owner_end[1] + 1, Len(frame_bytes))])

decode_priv_frame(frame_bytes) == PrivAt(frame_bytes, BytePosition(frame_bytes, 0))

\* `Ok((description, text))`
DescriptionFrom(description, text) ==
    IF description.kind # "Ok" THEN description
    ELSE IF text.kind # "Ok" THEN text
    ELSE Ok([description |-> description.value, text |-> text.value])

\* decode_description_text taking the text one byte after the first
\* separator, whatever the separator's length
DescriptionAt_skips_one_byte(encoding, bytes, w, description_end) ==
    IF description_end = <<>> THEN Err("MissingNullTerminator")
    ELSE DescriptionFrom(
            decode_text_segment(encoding, Slice(bytes, 0, description_end[1])),
            decode_text_segments(encoding,
                                 Slice(bytes, description_end[1] + 1, Len(bytes))))

\* decode_description_text with the first separator found at description_end
DescriptionAt(encoding, bytes, w, description_end) ==
    IF description_end = <<>> THEN Err("MissingNullTerminator")
    ELSE DescriptionFrom(
            decode_text_segment(encoding, Slice(bytes, 0, description_end[1])),
            decode_text_segments(encoding,
                                 Slice(bytes, description_end[1] + w, Len(bytes))))

decode_description_text(encoding, bytes) ==
    DescriptionAt(encoding, bytes, Len(get_trailing_null_slice(encoding)),
                  FirstSeparator(bytes, get_trailing_null_slice(encoding)))

\* decode_description_text(encoding?, bytes)
DescriptionIn(encoding, bytes) ==
    IF encoding.kind # "Ok" THEN encoding
    ELSE decode_description_text(encoding.value, bytes)

\* `Ok(LangDescriptionText { iso_639_2_lang, description, text })`
LangFrom(dt, lang_code) ==
    IF dt.kind # "Ok" THEN dt
    ELSE Ok([iso_639_2_lang |-> lang_code,
             description |-> dt.value.description, text |-> dt.value.text])

decode_lang_description_text(frame_bytes) ==
    IF Len(frame_bytes) < 5 THEN Err("FrameTooSmall")
    ELSE LangFrom(DescriptionIn(TextEncoding_try_from(frame_bytes[1]),
                                Slice(frame_bytes, 4, Len(frame_bytes))),
                  Slice(frame_bytes, 1, 4))

decode_txxx_frame(frame_bytes) ==
    IF Len(frame_bytes) < 2 THEN Err("FrameTooSmall")
    ELSE DescriptionIn(TextEncoding_try_from(frame_bytes[1]),
                       Slice(frame_bytes, 1, Len(frame_bytes)))

\* HashMap::insert on a map held as a set of <<key, value>> pairs
MapInsert(map, key, value) == {p \in map : p[1] # key} \cup {<<key, value>>}

\* the n-th smallest element of a set of integers (n from 1)
RECURSIVE Nth(_, _)
Nth(S, n) == IF n = 1 THEN SetMin(S) ELSE Nth(S \ {SetMin(S)}, n - 1)

\* `map.insert(key?, value?)`; the slice of the value is taken, and may
\* panic, after the key was decoded
Inserted(map, key, value_ok, value) ==
    IF key.kind # "Ok" THEN key
    ELSE IF ~value_ok THEN Panic
    ELSE IF value.kind # "Ok" THEN value
    ELSE Ok(MapInsert(map, key.value, value.value))

\* one turn of the loop: key = frame[ks..ke], value = frame[vs..ve]
MapEntry(encoding, frame, map, ks, ke, vs, ve) ==
    IF ~SliceOk(frame, ks, ke) THEN Panic
    ELSE Inserted(map, decode_text_segment(encoding, Slice(frame, ks, ke)),
                  SliceOk(frame, vs, ve),
                  decode_text_segment(encoding, Slice(frame, vs, ve)))

\* The loop of decode_text_map_frame from its i-th pair of separator offsets.
\* offs are the offsets of the separator chunks of frame[1..], and the source
\* uses them as offsets into frame itself.
RECURSIVE TextMapLoop(_, _, _, _, _, _, _)
TextMapNext(encoding, frame, w, offs, i, start, inserted) ==
    IF inserted.kind # "Ok" THEN inserted
    ELSE TextMapLoop(encoding, frame, w, offs, i, start, inserted.value)

TextMapPair(encoding, frame, w, offs, i, start, map, k_end, v_end) ==
    TextMapNext(encoding, frame, w, offs, i + 1, v_end + w,
                MapEntry(encoding, frame, map, start, k_end, k_end + w, v_end))

TextMapLast(encoding, frame, w, start, map, k_end) ==
    IF k_end + w = Len(frame) THEN Err("MissingValueInMapFrame")
    ELSE MapEntry(encoding, frame, map, start, k_end, k_end + w, Len(frame))

TextMapLoop(encoding, frame, w, offs, i, start, map) ==
    IF Cardinality(offs) < 2 * i - 1 THEN Ok(map)                   \* (None, _)
    ELSE IF Cardinality(offs) >= 2 * i                              \* (Some, Some)
    THEN TextMapPair(encoding, frame, w, offs, i, start, map,
                     Nth(offs, 2 * i - 1), Nth(offs, 2 * i))
    ELSE TextMapLast(encoding, frame, w, start, map, Nth(offs, 2 * i - 1))

\* decode_text_map_frame after `TextEncoding::try_from(frame[0])`
TextMapIn(encoding, frame) ==
    IF encoding.kind # "Ok" THEN encoding
    ELSE TextMapLoop(encoding.value, frame,
                     Len(get_trailing_null_slice(encoding.value)),
                     SeparatorOffsets(Slice(frame, 1, Len(frame)),
                                      get_trailing_null_slice(encoding.value)),
                     1, 1, {})

\* "Panics if frame is 0 length."
decode_text_map_frame(frame) ==
    IF Len(frame) = 0 THEN Panic                      \* frame[0]
    ELSE TextMapIn(TextEncoding_try_from(frame[1]), frame)

-----------------------------------------------------------------------------
(* Frame identifiers, as their four ASCII bytes, by the decoder the match   *)
(* of Parser::next routes them to.                                         *)

FrameId ==
    [COMM |-> <<67, 79, 77, 77>>, PRIV |-> <<80, 82, 73, 86>>, RVRB |-> <<82, 86, 82, 66>>,
     TALB |-> <<84, 65, 76, 66>>, TBPM |-> <<84, 66, 80, 77>>, TCOM |-> <<84, 67, 79, 77>>,
     TCON |-> <<84, 67, 79, 78>>, TCOP |-> <<84, 67, 79, 80>>, TDEN |-> <<84, 68, 69, 78>>,
     TDLY |-> <<84, 68, 76, 89>>, TDOR |-> <<84, 68, 79, 82>>, TDRC |-> <<84, 68, 82, 67>>,
     TDRL |-> <<84, 68, 82, 76>>, TDTG |-> <<84, 68, 84, 71>>, TENC |-> <<84, 69, 78, 67>>,
     TEXT |-> <<84, 69, 88, 84>>, TIPL |-> <<84, 73, 80, 76>>, TIT1 |-> <<84, 73, 84, 49>>,
     TIT2 |-> <<84, 73, 84, 50>>, TIT3 |-> <<84, 73, 84, 51>>, TLEN |-> <<84, 76, 69, 78>>,
     TMCL |-> <<84, 77, 67, 76>>, TMOO |-> <<84, 77, 79, 79>>, TOAL |-> <<84, 79, 65, 76>>,
     TOFN |-> <<84, 79, 70, 78>>, TOLY |-> <<84, 79, 76, 89>>, TOPE |-> <<84, 79, 80, 69>>,
     TOWN |-> <<84, 79, 87, 78>>, TPE1 |-> <<84, 80, 69, 49>>, TPE2 |-> <<84, 80, 69, 50>>,
     TPE3 |-> <<84, 80, 69, 51>>, TPE4 |-> <<84, 80, 69, 52>>, TPOS |-> <<84, 80, 79, 83>>,
     TPRO |-> <<84, 80, 82, 79>>, TPUB |-> <<84, 80, 85, 66>>, TRCK |-> <<84, 82, 67, 75>>,
     TRSN |-> <<84, 82, 83, 78>>, TRSO |-> <<84, 82, 83, 79>>, TSOA |-> <<84, 83, 79, 65>>,
     TSOP |-> <<84, 83, 79, 80>>, TSOT |-> <<84, 83, 79, 84>>, TSRC |-> <<84, 83, 82, 67>>,
     TSSE |-> <<84, 83, 83, 69>>, TSST |-> <<84, 83, 83, 84>>, TXXX |-> <<84, 88, 88, 88>>,
     USLT |-> <<85, 83, 76, 84>>, WCOM |-> <<87, 67, 79, 77>>, WCOP |-> <<87, 67, 79, 80>>,
     WOAF |-> <<87, 79, 65, 70>>, WOAR |-> <<87, 79, 65, 82>>, WOAS |-> <<87, 79, 65, 83>>,
     WORS |-> <<87, 79, 82, 83>>, WPAY |-> <<87, 80, 65, 89>>, WPUB |-> <<87, 80, 85, 66>>]

TextFrameNames ==
    {FrameId.TALB, FrameId.TCOM, FrameId.TENC, FrameId.TEXT, FrameId.TIT1,
     FrameId.TIT2, FrameId.TIT3, FrameId.TMOO, FrameId.TOAL, FrameId.TOFN,
     FrameId.TOLY, FrameId.TOPE, FrameId.TOWN, FrameId.TPE1, FrameId.TPE2,
     FrameId.TPE3, FrameId.TPE4, FrameId.TPUB, FrameId.TRSN, FrameId.TRSO,
     FrameId.TSOA, FrameId.TSOP, FrameId.TSOT, FrameId.TSRC, FrameId.TSSE,
     FrameId.TSST}

NumericFrameNames == {FrameId.TBPM, FrameId.TDLY, FrameId.TLEN}

DateFrameNames == {FrameId.TDEN, FrameId.TDOR, FrameId.TDRC, FrameId.TDRL, FrameId.TDTG}

TrackFrameNames == {FrameId.TPOS, FrameId.TRCK}

CopyrightFrameNames == {FrameId.TCOP, FrameId.TPRO}

MapFrameNames == {FrameId.TIPL, FrameId.TMCL}

UrlFrameNames ==
    {FrameId.WCOM, FrameId.WCOP, FrameId.WOAF, FrameId.WOAR,
     FrameId.WOAS, FrameId.WORS, FrameId.WPAY, FrameId.WPUB}

LangFrameNames == {FrameId.COMM, FrameId.USLT}

-----------------------------------------------------------------------------
(* decode_genre_frame: the names of the codes "0" .. "79", in order.       *)

GenreNames ==
    <<
      <<66, 108, 117, 101, 115>>,
      <<67, 108, 97, 115, 115, 105, 99, 32, 82, 111, 99, 107>>,
      <<67, 111, 117, 110, 116, 114, 121>>,
      <<68, 97, 110, 99, 101>>,
      <<68, 105, 115, 99, 111>>,
      <<70, 117, 110, 107>>,
      <<71, 114, 117, 110, 103, 101>>,
      <<72, 105, 112, 45, 72, 111, 112>>,
      <<74, 97, 122, 122>>,
      <<77, 101, 116, 97, 108>>,
      <<78, 101, 119, 32, 65, 103, 101>>,
      <<79, 108, 100, 105, 101, 115>>,
      <<79, 116, 104, 101, 114>>,
      <<80, 111, 112>>,
      <<82, 38, 66>>,
      <<82, 97, 112>>,
      <<82, 101, 103, 103, 97, 101>>,
      <<82, 111, 99, 107>>,
      <<84, 101, 99, 104, 110, 111>>,
      <<73, 110, 100, 117, 115, 116, 114, 105, 97, 108>>,
      <<65, 108, 116, 101, 114, 110, 97, 116, 105, 118, 101>>,
      <<83, 107, 97>>,
      <<68, 101, 97, 116, 104, 32, 77, 101, 116, 97, 108>>,
      <<80, 114, 97, 110, 107, 115>>,
      <<83, 111, 117, 110, 100, 116, 114, 97, 99, 107>>,
      <<69, 117, 114, 111, 45, 84, 101, 99, 104, 110, 111>>,
      <<65, 109, 98, 105, 101, 110, 116>>,
      <<84, 114, 105, 112, 45, 72, 111, 112>>,
      <<86, 111, 99, 97, 108>>,
      <<74, 97, 122, 122, 43, 70, 117, 110, 107>>,
      <<70, 117, 115, 105, 111, 110>>,
      <<84, 114, 97, 110, 99, 101>>,
      <<67, 108, 97, 115, 115, 105, 99, 97, 108>>,
      <<73, 110, 115, 116, 114, 117, 109, 101, 110, 116, 97, 108>>,
      <<65, 99, 105, 100>>,
      <<72, 111, 117, 115, 101>>,
      <<71, 97, 109, 101>>,
      <<83, 111, 117, 110, 100, 32, 67, 108, 105, 112>>,
      <<71, 111, 115, 112, 101, 108>>,
      <<78, 111, 105, 115, 101>>,
      <<65, 108, 116, 101, 114, 110, 82, 111, 99, 107>>,
      <<66, 97, 115, 115>>,
      <<83, 111, 117, 108>>,
      <<80, 117, 110, 107>>,
      <<83, 112, 97, 99, 101>>,
      <<77, 101, 100, 105, 116, 97, 116, 105, 118, 101>>,
<<73, 110, 115, 116, 114, 117, 109, 101, 110, 116, 97, 108, 32, 80, 111,
        112>>,
<<73, 110, 115, 116, 114, 117, 109, 101, 110, 116, 97, 108, 32, 82, 111, 99,
        107>>,
      <<69, 116, 104, 110, 105, 99>>,
      <<71, 111, 116, 104, 105, 99>>,
      <<68, 97, 114, 107, 119, 97, 118, 101>>,
<<84, 101, 99, 104, 110, 111, 45, 73, 110, 100, 117, 115, 116, 114, 105, 97,
        108>>,
      <<69, 108, 101, 99, 116, 114, 111, 110, 105, 99>>,
      <<80, 111, 112, 45, 70, 111, 108, 107>>,
      <<69, 117, 114, 111, 100, 97, 110, 99, 101>>,
      <<68, 114, 101, 97, 109>>,
      <<83, 111, 117, 116, 104, 101, 114, 110, 32, 82, 111, 99, 107>>,
      <<67, 111, 109, 101, 100, 121>>,
      <<67, 117, 108, 116>>,
      <<71, 97, 110, 103, 115, 116, 97>>,
      <<84, 111, 112, 32, 52, 48>>,
      <<67, 104, 114, 105, 115, 116, 105, 97, 110, 32, 82, 97, 112>>,
      <<80, 111, 112, 47, 70, 117, 110, 107>>,
      <<74, 117, 110, 103, 108, 101>>,
      <<78, 97, 116, 105, 118, 101, 32, 65, 109, 101, 114, 105, 99, 97, 110>>,
      <<67, 97, 98, 97, 114, 101, 116>>,
      <<78, 101, 119, 32, 87, 97, 118, 101>>,
      <<80, 115, 121, 99, 104, 101, 100, 101, 108, 105, 99>>,
      <<82, 97, 118, 101>>,
      <<83, 104, 111, 119, 116, 117, 110, 101, 115>>,
      <<84, 114, 97, 105, 108, 101, 114>>,
      <<76, 111, 45, 70, 105>>,
      <<84, 114, 105, 98, 97, 108>>,
      <<65, 99, 105, 100, 32, 80, 117, 110, 107>>,
      <<65, 99, 105, 100, 32, 74, 97, 122, 122>>,
      <<80, 111, 108, 107, 97>>,
      <<82, 101, 116, 114, 111>>,
      <<77, 117, 115, 105, 99, 97, 108>>,
      <<82, 111, 99, 107, 32, 38, 32, 82, 111, 108, 108>>,
      <<72, 97, 114, 100, 32, 82, 111, 99, 107>>
    >>

Remix == <<82, 101, 109, 105, 120>>

Cover == <<67, 111, 118, 101, 114>>

\* the match of decode_genre_frame on one decoded segment
GenreOf(genre) ==
    IF /\ Len(genre) \in {1, 2}
       /\ \A i \in 1 .. Len(genre) : IsDigit(genre[i])
       /\ (Len(genre) = 2 => genre[1] # 48)
       /\ DigitsValue(genre) <= 79
    THEN GenreNames[DigitsValue(genre) + 1]
    ELSE IF genre = <<82, 88>> THEN Remix
    ELSE IF genre = <<67, 82>> THEN Cover
    ELSE genre

\* `for genre in genres.iter_mut() { .. }` on the decoded segments
GenresOf(genres) ==
    IF genres.kind # "Ok" THEN genres
    ELSE Ok([i \in 1 .. Len(genres.value) |-> GenreOf(genres.value[i])])

decode_genre_frame(frame_bytes) == GenresOf(decode_text_frame(frame_bytes))

\* `for segment in decode_text_frame(frame_bytes)? { decode_copyright_frame(segment)? }`
RECURSIVE CopyrightSegments(_)
CopyrightSegments(text) ==
    IF text = <<>> THEN Ok(<<>>)
    ELSE Cons(decode_copyright_frame(Head(text)), CopyrightSegments(Tail(text)))

CopyrightFrame(text) ==
    IF text.kind # "Ok" THEN text ELSE CopyrightSegments(text.value)

\* `map_parse(decode_text_frame(frame_bytes)?)?` for the item type T
ParsedTextFrame(T, text) ==
    IF text.kind # "Ok" THEN text ELSE map_parse(T, text.value)

\* The `try { match &name { ... } }` of Parser::next: the decoder of the frame's
\* identifier applied to its body.
decode_frame(name, frame_bytes) ==
    CASE name \in LangFrameNames      -> decode_lang_description_text(frame_bytes)
      [] name = FrameId.PRIV                  -> decode_priv_frame(frame_bytes)
      [] name = FrameId.RVRB                  -> decode_reverb_frame(frame_bytes)
      [] name \in TextFrameNames      -> decode_text_frame(frame_bytes)
      [] name \in NumericFrameNames   -> ParsedTextFrame("u64", decode_text_frame(frame_bytes))
      [] name = FrameId.TCON                  -> decode_genre_frame(frame_bytes)
      [] name \in CopyrightFrameNames -> CopyrightFrame(decode_text_frame(frame_bytes))
      [] name \in DateFrameNames      -> ParsedTextFrame("Date", decode_text_frame(frame_bytes))
      [] name \in TrackFrameNames     -> ParsedTextFrame("Track", decode_text_frame(frame_bytes))
      [] name \in MapFrameNames       -> decode_text_map_frame(frame_bytes)
      [] name = FrameId.TXXX                  -> decode_txxx_frame(frame_bytes)
      [] name \in UrlFrameNames       -> decode_url_frame(frame_bytes)
      [] OTHER                        -> Ok(frame_bytes)

-----------------------------------------------------------------------------
(* The frame stream: Parser::next of v24.rs.                               *)

\* What one call of next returns, and the cursor it leaves: out is "None",
\* "Ok" (Some(Ok(Frame))), "Err" (Some(Err(..))) or "Panic"; body is the slice
\* handed to the decoder; group is <<>> for None.
NextReturn(out, name, reason, value, group, body, cur) ==
    [out |-> out, name |-> name, reason |-> reason, value |-> value,
     group |-> group, body |-> body, cursor |-> cur]

NextNone(cur) == NextReturn("None", <<>>, "", <<>>, <<>>, <<>>, cur)

NextPanic(cur) == NextReturn("Panic", <<>>, "", <<>>, <<>>, <<>>, cur)

\* `frame_size.saturating_sub(1);`: the difference is computed and dropped
grouping_adjusted_size(frame_size) == frame_size

\* `self.cursor += frame_size` and the Some(..) returned
v24_emit(result, name, group, frame_bytes, c3) ==
    IF result.kind = "Panic" THEN NextPanic(c3)
    ELSE NextReturn(result.kind, name, result.reason, result.value, group,
                    frame_bytes, c3 + Len(frame_bytes))

\* Parser::next refusing a frame that crosses the end of the buffer with an
\* error, and skipping its declared size all the same
v24_body_skips_declared_size(buf, c3, name, frame_size, group) ==
    IF ~SliceOk(buf, c3, c3 + frame_size)
    THEN NextReturn("Err", name, "FrameTooSmall", <<>>, group, <<>>, c3 + frame_size)
    ELSE v24_emit(decode_frame(name, Slice(buf, c3, c3 + frame_size)), name, group,
                  Slice(buf, c3, c3 + frame_size), c3)

\* `let frame_bytes = &self.content[self.cursor..self.cursor + frame_size]` and
\* the decoding of it
v24_body(buf, c3, name, frame_size, group) ==
    IF ~SliceOk(buf, c3, c3 + frame_size) THEN NextPanic(c3)
    ELSE v24_emit(decode_frame(name, Slice(buf, c3, c3 + frame_size)), name, group,
                  Slice(buf, c3, c3 + frame_size), c3)

\* `if frame_flags.contains(FrameFlags::DATA_LENGTH_INDICATOR) { .. }`
v24_data_length(buf, c2, name, frame_size, frame_flags, group) ==
    IF contains(frame_flags, DATA_LENGTH_INDICATOR)
    THEN IF ~SliceOk(buf, c2, c2 + 4) THEN NextPanic(c2)
         ELSE v24_body(buf, c2 + 4, name,
                       synchsafe_u32_to_u32(read_u32(Slice(buf, c2, c2 + 4))), group)
    ELSE v24_body(buf, c2, name, frame_size, group)

\* `if frame_flags.contains(FrameFlags::GROUPING_IDENTITY) { .. }`
v24_grouping(buf, c1, name, frame_size, frame_flags) ==
    IF contains(frame_flags, GROUPING_IDENTITY)
    THEN IF c1 >= Len(buf) THEN NextPanic(c1)                 \* content[cursor]
         ELSE v24_data_length(buf, c1 + 1, name, grouping_adjusted_size(frame_size),
                              frame_flags, <<buf[c1 + 1]>>)
    ELSE v24_data_length(buf, c1, name, frame_size, frame_flags, <<>>)

\* Parser::next of v24.rs without the test for the all-zero identifier
v24_next_without_padding_test(buf, cur) ==
    IF cur > Len(buf) THEN NextPanic(cur)
    ELSE IF Len(buf) - cur < 10 THEN NextNone(cur)
    ELSE v24_grouping(buf, cur + 10, Slice(buf, cur, cur + 4),
                      synchsafe_u32_to_u32(read_u32(Slice(buf, cur + 4, cur + 8))),
                      from_bits_truncate(FRAME_FLAGS,
                                         read_u16(Slice(buf, cur + 8, cur + 10))))

\* Parser::next of v24.rs with the cursor at cur
v24_next_result(buf, cur) ==
    IF cur > Len(buf) THEN NextPanic(cur)          \* content.len() - cursor
    ELSE IF Len(buf) - cur < 10 THEN NextNone(cur)
    ELSE IF Slice(buf, cur, cur + 4) = <<0, 0, 0, 0>> THEN NextNone(cur)   \* Padding
    ELSE v24_grouping(buf, cur + 10, Slice(buf, cur, cur + 4),
                      synchsafe_u32_to_u32(read_u32(Slice(buf, cur + 4, cur + 8))),
                      from_bits_truncate(FRAME_FLAGS,
                                         read_u16(Slice(buf, cur + 8, cur + 10))))

-----------------------------------------------------------------------------
(* The frame stream of mod.rs: its own Parser::next and decode_text_frame.  *)

\* Parser::decode_text_frame of mod.rs with the cursor at cur: the set of its
\* outcomes.  Encoding 1 reads the bytes through a *const u16: at an odd
\* address that is undefined behaviour, which a build either executes as an
\* unaligned read or stops at.
mod_decode_text(encoding, text_data, aligned) ==
    CASE encoding = 0 -> {Ok(text_data)}
      [] encoding = 1 ->
            IF Len(text_data) % 2 # 0 THEN {Panic}               \* assert!(false)
            ELSE IF aligned THEN {from_utf16(NativeUnits(text_data))}
            ELSE {from_utf16(NativeUnits(text_data)), Panic}
      [] encoding = 2 -> {Panic}                                 \* unimplemented!()
      [] encoding = 3 -> {from_utf8(text_data)}
      [] OTHER -> {ErrWith("UnknownEncoding", encoding)}

mod_decode_text_frame(buf, cur, frame_size) ==
    IF cur >= Len(buf) THEN {Panic}                    \* self.content[self.cursor]
    ELSE IF buf[cur + 1] \in {0, 1, 3} /\ ~SliceOk(buf, cur + 1, cur + frame_size)
    THEN {Panic}
    ELSE mod_decode_text(buf[cur + 1], Slice(buf, cur + 1, cur + frame_size),
                         (cur + 1) % 2 = 0)

\* what next returns for the outcome r of decode_text_frame;
\* wtry! returns an error before `self.cursor += frame_size`
mod_text_return(r, name, c1, frame_size) ==
    CASE r.kind = "Panic" -> NextPanic(c1)
      [] r.kind = "Err" -> NextReturn("Err", <<>>, r.reason, r.value, <<>>, <<>>, c1)
      [] OTHER -> NextReturn("Ok", name, "", r.value, <<>>, <<>>, c1 + frame_size)

\* the `match name` of Parser::next of mod.rs
mod_frame(buf, cur, name, frame_size, frame_flags) ==
    IF frame_flags # 0 THEN {NextPanic(cur)}                       \* unimplemented!()
    ELSE IF name = FrameId.TPE1
    THEN {mod_text_return(r, name, cur + 10, frame_size) :
             r \in mod_decode_text_frame(buf, cur + 10, frame_size)}
    ELSE IF ~SliceOk(buf, cur + 10, cur + 10 + frame_size) THEN {NextPanic(cur + 10)}
    ELSE {NextReturn("Ok", name, "", Slice(buf, cur + 10, cur + 10 + frame_size),
                     <<>>, Slice(buf, cur + 10, cur + 10 + frame_size),
                     cur + 10 + frame_size)}

\* Parser::next of mod.rs: the set of its outcomes
mod_next_results(buf, cur) ==
    IF cur > Len(buf) THEN {NextPanic(cur)}
    ELSE IF Len(buf) - cur < 10 THEN {NextNone(cur)}
    ELSE IF Slice(buf, cur, cur + 4) = <<0, 0, 0, 0>> THEN {NextNone(cur)}
    ELSE mod_frame(buf, cur, Slice(buf, cur, cur + 4),
                   synchsafe_u32_to_u32(read_u32(Slice(buf, cur + 4, cur + 8))),
                   from_bits_truncate(FRAME_FLAGS,
                                      read_u16(Slice(buf, cur + 8, cur + 10))))

-----------------------------------------------------------------------------
(* The inputs: byte sources.                                               *)

MaxFrames == 2

Zeros(n) == [i \in 1 .. n |-> 0]

\* a frame as it lies in the buffer: identifier, synchsafe size, flag word,
\* and the bytes that follow the 10-byte frame header
FrameOf(name, size, flags, rest) ==
    name \o <<0, 0, size \div 128, size % 128>> \o <<flags \div 256, flags % 256>>
         \o rest

XXXX == <<88, 88, 88, 88>>

FrameLib ==
    { FrameOf(FrameId.TIT2, 5, 0, <<3, 72, 105, 33, 0>>),                \* UTF-8 "Hi!"
      FrameOf(FrameId.TIT2, 0, 0, <<>>),                                 \* empty text frame
      FrameOf(FrameId.WCOM, 0, 0, <<>>),                                 \* empty URL frame
      FrameOf(FrameId.RVRB, 0, 0, <<>>),
      FrameOf(XXXX, 0, 0, <<>>),                                 \* empty unknown frame
      FrameOf(XXXX, 2, 0, <<1, 2>>),
      FrameOf(FrameId.TPE1, 2, 0, <<0, 65>>),                            \* ISO-8859-1 "A"
      FrameOf(FrameId.TIT2, 2, READ_ONLY, <<3, 65>>),
      FrameOf(FrameId.TIT2, 2, COMPRESSION, <<3, 65>>),
      FrameOf(FrameId.TALB, 2, ENCRYPTION, <<3, 65>>),
      FrameOf(XXXX, 2, UNSYNCHRONIZATION, <<3, 65>>),
      FrameOf(FrameId.TIT2, 2, GROUPING_IDENTITY, <<7, 3, 65>>),
      FrameOf(FrameId.TIT2, 2, DATA_LENGTH_INDICATOR, <<0, 0, 0, 2, 3, 65>>),
      FrameOf(FrameId.TIT2, 2, DATA_LENGTH_INDICATOR, <<0, 0, 0, 1, 3, 65>>),
      FrameOf(FrameId.TIT2, 9, DATA_LENGTH_INDICATOR, <<0, 0, 0, 2, 3, 65>>),
      FrameOf(FrameId.TIT2, 3, 0, <<1, 0, 0>>),                          \* empty UTF-16 segment
      FrameOf(FrameId.TIT2, 5, 0, <<1, 255, 254, 65, 0>>),               \* UTF-16LE "A"
      FrameOf(FrameId.TCOP, 6, 0, <<3, 50, 48, 48, 195, 169>>),          \* "200e-acute"
      FrameOf(FrameId.TCON, 4, 0, <<0, 49, 55, 0>>),                     \* "17"
      FrameOf(FrameId.TRCK, 5, 0, <<3, 51, 47, 49, 50>>),                \* "3/12"
      FrameOf(FrameId.TDRC, 8, 0, <<3, 50, 48, 50, 49, 45, 48, 54>>),    \* "2021-06"
      FrameOf(FrameId.WCOM, 2, 0, <<97, 0>>),
      FrameOf(FrameId.PRIV, 3, 0, <<97, 0, 9>>) }

\* the frame buffers: up to n frames of the library one after the other
RECURSIVE FrameSeqs(_)
FrameSeqs(n) ==
    IF n = 0 THEN {<<>>}
    ELSE LET shorter == FrameSeqs(n - 1)
         IN  shorter \cup {f \o b : f \in FrameLib, b \in shorter}

PadLens == {0, 4, 25}

\* an ID3v2 tag: the 10-byte outer header, then the bytes after it
TagSource(magic, major, revision, flags, size, rest) ==
    magic \o <<major, revision, flags>>
          \o <<0, 0, size \div 128, size % 128>> \o rest

\* well-formed v2.4 tags over every frame buffer
BodySources ==
    {TagSource(ID3, 4, 0, 0, Len(b) + pad, b \o Zeros(pad)) :
        b \in FrameSeqs(MaxFrames), pad \in PadLens}

Magics == {ID3, <<51, 68, 73>>, <<84, 65, 71>>, <<73, 68, 50>>, <<0, 0, 0>>,
           <<255, 251, 144>>}

Majors == {0, 2, 3, 4, 5, 255}

TagFlagBytes == {0, 128, 64, 32, 16, 15, 144, 208}

SampleFrames == FrameOf(FrameId.TIT2, 5, 0, <<3, 72, 105, 33, 0>>)

\* an extended header with CRC and restrictions: size, count byte 0x01, flags,
\* 5 bytes of CRC, 1 byte of restrictions
SampleExtendedHeader == <<0, 0, 0, 12, 1, 48, 0, 0, 0, 0, 0, 0>>

\* every outer header over a few bodies, the declared size right, too large
\* for the source, or covering an extended header
HeaderSources ==
    {TagSource(m, major, rev, fl, Len(SampleFrames) + extra, SampleFrames) :
        m \in Magics, major \in Majors, rev \in {0, 1}, fl \in TagFlagBytes,
        extra \in {0, 1}}
    \cup {TagSource(ID3, major, 0, fl, Len(SampleExtendedHeader \o SampleFrames),
                    SampleExtendedHeader \o SampleFrames) :
            major \in Majors, fl \in TagFlagBytes}
    \cup {SubSeq(TagSource(ID3, 4, 0, 0, 0, <<>>), 1, n) : n \in {0, 3, 9}}

\* v2.4 tags whose declared size ends cut bytes before the end of the one
\* frame that follows the header: the frame buffer stops inside the frame, and
\* the source goes on after the bytes that the tag declares
CutLens == {1, 3}

TruncatedSources ==
    {TagSource(ID3, 4, 0, 0, Len(f) - cut, f) : f \in FrameLib, cut \in CutLens}

Sources == BodySources \cup HeaderSources \cup TruncatedSources

-----------------------------------------------------------------------------
(* The state machine.                                                      *)

NotCalled == NextReturn("NotCalled", <<>>, "", <<>>, <<>>, <<>>, 0)

Init ==
    /\ source \in Sources
    /\ nread = 0
    /\ tag = [kind |-> "NotRun", ver |-> 0]
    /\ parser = "none"
    /\ content = <<>>
    /\ cursor = 0
    /\ pre = 0
    /\ last = NotCalled
    /\ emitted = 0
    /\ sync_in = <<0, 0, 0, 0>>
    /\ sync_out = <<>>

\* parse_source(&mut source).  `Parser { cursor: 0, content: frames }` builds
\* the Parser of mod.rs; main.rs iterates the frames of v24.rs's Parser, which
\* Parser::new builds from the same buffer: either owns the buffer afterwards.
parse_source ==
    /\ tag.kind = "NotRun"
    /\ LET r == parse_source_result(source) IN
       /\ tag' = [kind |-> r.kind, ver |-> r.ver]
       /\ nread' = r.nread
       /\ content' = r.content
       /\ parser' \in IF r.kind = "Ok" THEN {"mod", "v24"} ELSE {"none"}
    /\ cursor' = 0
    /\ UNCHANGED <<source, pre, last, emitted, sync_in, sync_out>>

\* the caller's view of one return of next
Returned(r) ==
    /\ pre' = cursor
    /\ cursor' = r.cursor
    /\ last' = [r EXCEPT !.cursor = 0]
    /\ emitted' = IF r.out \in {"Ok", "Err"} THEN emitted + 1 ELSE emitted
    /\ UNCHANGED <<source, nread, tag, parser, content, sync_in, sync_out>>

\* <v24::Parser as Iterator>::next
v24_next ==
    /\ parser = "v24"
    /\ last.out # "Panic"
    /\ Returned(v24_next_result(content, cursor))

\* <Parser as Iterator>::next of mod.rs
mod_next ==
    /\ parser = "mod"
    /\ last.out # "Panic"
    /\ \E r \in mod_next_results(content, cursor) : Returned(r)

Next == parse_source \/ v24_next \/ mod_next

Spec == Init /\ [][Next]_vars

-----------------------------------------------------------------------------
(* Properties of the tag framer.                                           *)

\* parse_source has returned or aborted
Called == tag.kind # "NotRun"

\* the source holds an outer header that starts with "ID3"
HasID3Header == Len(source) >= 10 /\ Slice(source, 0, 3) = ID3

\* the size field of the outer header, decoded
DeclaredSize == synchsafe_u32_to_u32(read_u32(Slice(source, 6, 10)))

\* C1: for every byte source of length >= 10 whose first three bytes are not
\* "ID3", parse_source returns Err(NoTag): it returns, and builds no Parser.
C1_NoTagWithoutMagic ==
    (Called /\ Len(source) >= 10 /\ Slice(source, 0, 3) # ID3)
        => (tag.kind = "NoTag" /\ parser = "none")

\* C2: for every header that starts with "ID3" and whose major version byte m
\* is not 4, parse_source returns UnsupportedVersion(m), having read the
\* 10-byte outer header and nothing after it; no frame buffer exists.
C2_UnsupportedVersionBeforeBody ==
    (Called /\ HasID3Header /\ source[4] # 4)
        => /\ tag = [kind |-> "UnsupportedVersion", ver |-> source[4]]
           /\ nread = 10
           /\ content = <<>>
           /\ parser = "none"

\* a v2.3 header in front of a body was refused after 10 bytes
C2_Witness ==
    /\ Called /\ HasID3Header /\ source[4] = 3 /\ Len(source) > 10
    /\ tag = [kind |-> "UnsupportedVersion", ver |-> 3]
    /\ nread = 10

\* C3: for every v2.4 header whose flag byte has the UNSYNCHRONISED bit (0x80)
\* or the FOOTER_PRESENT bit (0x10) set, parse_source returns the error
\* UnsupportedFeature and builds no Parser.
C3_UnsupportedFeature ==
    (/\ Called /\ HasID3Header /\ source[4] = 4
     /\ \/ contains(source[6], TAG_UNSYNCHRONIZED)
        \/ contains(source[6], TAG_FOOTER_PRESENT))
        => (tag.kind = "UnsupportedFeature" /\ parser = "none")

\* C4: for a v2.4 tag with only the EXTENDED_HEADER flag set, whose extended
\* header has both CRC_DATA_PRESENT and TAG_RESTRICTIONS, parse_source
\* consumes the extended header and hands over a frame buffer of the declared
\* tag size - 6 - 5 - 1 bytes.
C4_ExtendedHeaderConsumed ==
    (/\ Called /\ HasID3Header /\ source[4] = 4
     /\ source[6] = TAG_EXTENDED_HEADER
     /\ Len(source) = 10 + DeclaredSize /\ DeclaredSize >= 12
     /\ source[15] = 1
     /\ contains(source[16], CRC_DATA_PRESENT)
     /\ contains(source[16], TAG_RESTRICTIONS))
        => /\ tag.kind = "Ok"
           /\ Len(content) = DeclaredSize - 6 - 5 - 1

\* the flag byte of the outer header has none of the four v2.4 flags
NoTagFlags == from_bits_truncate(V24_TAG_FLAGS, source[6]) = 0

-----------------------------------------------------------------------------
(* Properties of the frame stream.                                         *)

\* next has been called, and `pre` is where the cursor stood at the last call
CalledNext == parser # "none" /\ last.out # "NotCalled"

\* the last call found a frame header at the cursor: ten bytes at least, and
\* an identifier that is not all zero
FrameSeen ==
    /\ CalledNext
    /\ Len(content) - pre >= 10
    /\ Slice(content, pre, pre + 4) # <<0, 0, 0, 0>>

\* the fields of that frame header
SeenName == Slice(content, pre, pre + 4)

SeenSize == synchsafe_u32_to_u32(read_u32(Slice(content, pre + 4, pre + 8)))

SeenFlags == read_u16(Slice(content, pre + 8, pre + 10))

\* the extent of the frame whose header is at cur: header, size, and the
\* bytes that the grouping and data-length flags add
FrameExtent(buf, cur) ==
    10 + synchsafe_u32_to_u32(read_u32(Slice(buf, cur + 4, cur + 8)))
       + (IF contains(read_u16(Slice(buf, cur + 8, cur + 10)), GROUPING_IDENTITY)
          THEN 1 ELSE 0)
       + (IF contains(read_u16(Slice(buf, cur + 8, cur + 10)), DATA_LENGTH_INDICATOR)
          THEN 4 ELSE 0)

\* every frame of buf from cur on, up to the padding, lies inside buf
RECURSIVE ExtentsInside(_, _)
ExtentsInside(buf, cur) ==
    IF Len(buf) - cur < 10 \/ Slice(buf, cur, cur + 4) = <<0, 0, 0, 0>> THEN TRUE
    ELSE /\ cur + FrameExtent(buf, cur) <= Len(buf)
         /\ ExtentsInside(buf, cur + FrameExtent(buf, cur))

\* the size field of the frame header that the last call found reaches past
\* the end of the buffer
FrameCrossesEnd == FrameSeen /\ pre + 10 + SeenSize > Len(content)

\* C11: a frame whose declared size extends past the end of the frame buffer
\* is refused: next never emits an Ok(Frame), known or Unknown, built from it.
\* (No read at an index >= content.len() can happen in safe Rust: every index
\* and slice is bounds-checked, which is the Panic outcome of the model.)
C11_CrossingFrameRefused == FrameCrossesEnd => last.out # "Ok"

\* C6: for every frame buffer in which each frame's declared extent lies
\* inside the buffer, every call to next returns end-of-stream, Ok(Frame) or
\* Err(FrameParseError), whatever the frame bodies hold; no call panics.
C6_NextNeverPanics ==
    (parser # "none" /\ ExtentsInside(content, 0)) => last.out # "Panic"

\* the cursor is at the end of the stream: fewer than 10 bytes remain, or the
\* identifier at the cursor is all zero
AtEnd ==
    \/ Len(content) - cursor < 10
    \/ Slice(content, cursor, cursor + 4) = <<0, 0, 0, 0>>

\* a call to next with the cursor at the end of the stream, or after
\* end-of-stream was returned, returns end-of-stream, leaves the cursor where
\* it is and emits nothing
EndAbsorbs ==
    (parser # "none" /\ (AtEnd \/ last.out = "None"))
        => (last'.out = "None" /\ cursor' = cursor /\ emitted' = emitted)

\* the buffer of 40 bytes: one TIT2 of size 5, then zeros
PaddedBuffer == FrameOf(FrameId.TIT2, 5, 0, <<3, 72, 105, 33, 0>>) \o Zeros(25)

\* on that buffer there is never a second emission, and end-of-stream comes
\* after exactly one
OneEmission ==
    (parser # "none" /\ content = PaddedBuffer)
        => /\ emitted <= 1
           /\ last.out = "None" => (emitted = 1 /\ cursor = 15)

\* C7: end-of-stream is absorbing: a call that finds fewer than 10 bytes
\* remaining or an all-zero identifier at the cursor returns end-of-stream
\* without moving the cursor, every later call returns end-of-stream too, and
\* no frame is emitted after padding was seen; the 40-byte buffer with one
\* TIT2 of size 5 followed by zeros yields exactly one emission.
C7_EndOfStreamAbsorbing == [][EndAbsorbs]_vars /\ []OneEmission

\* end-of-stream was returned on the 40-byte buffer, after one emission
C7_Witness ==
    /\ parser = "v24" /\ content = PaddedBuffer
    /\ last.out = "None" /\ emitted = 1 /\ cursor = 15 /\ pre = 15

\* C8: for every call to next that returns an emission, Ok or Err, the cursor
\* after the call is the cursor before it plus 10 + size, plus 1 if
\* GROUPING_IDENTITY is set, plus 4 if DATA_LENGTH_INDICATOR is set, size
\* being the decoded size field of the frame's header.
C8_CursorAdvance ==
    (CalledNext /\ last.out \in {"Ok", "Err"})
        => cursor = pre + FrameExtent(content, pre)

\* C13: when GROUPING_IDENTITY is set on a frame of declared size n >= 1,
\* next (of v24.rs) takes the byte after the 10-byte frame header as the group
\* and passes to the decoder exactly the n - 1 bytes that follow it.
C13_GroupingAdjustsSize ==
    (/\ FrameSeen /\ parser = "v24" /\ last.out \in {"Ok", "Err"}
     /\ contains(SeenFlags, GROUPING_IDENTITY)
     /\ ~contains(SeenFlags, DATA_LENGTH_INDICATOR)
     /\ SeenSize >= 1)
        => /\ SliceOk(content, pre + 10, pre + 11 + SeenSize - 1)
           /\ last.group = <<content[pre + 11]>>
           /\ last.body = Slice(content, pre + 11, pre + 11 + SeenSize - 1)

\* C14: when DATA_LENGTH_INDICATOR is set, next (of v24.rs) consumes the four
\* bytes after the frame header and ignores their value: the body passed to
\* the decoder is the size bytes after them, size being the size field of the
\* frame header, whatever the four bytes hold.
C14_DataLengthIgnored ==
    (/\ FrameSeen /\ parser = "v24" /\ last.out \in {"Ok", "Err"}
     /\ contains(SeenFlags, DATA_LENGTH_INDICATOR)
     /\ ~contains(SeenFlags, GROUPING_IDENTITY))
        => /\ SliceOk(content, pre + 14, pre + 14 + SeenSize)
           /\ last.body = Slice(content, pre + 14, pre + 14 + SeenSize)

\* C9: for every frame whose header declares size zero, whatever its
\* identifier, next (of v24.rs) emits the error EmptyFrame carrying that
\* identifier and leaves the cursor right after the 10-byte frame header.
C9_EmptyFrame ==
    (FrameSeen /\ parser = "v24" /\ SeenSize = 0 /\ SeenFlags = 0)
        => /\ last.out = "Err"
           /\ last.reason = "EmptyFrame"
           /\ last.name = SeenName
           /\ cursor = pre + 10

\* C10: for every frame whose flag word has the compression (0x0008),
\* encryption (0x0004) or unsynchronisation (0x0002) bit set, next emits the
\* error UnsupportedFrameFeature, and no Ok(Frame) decoded from its body.
C10_UnsupportedFrameFeature ==
    (/\ FrameSeen
     /\ \/ contains(SeenFlags, COMPRESSION)
        \/ contains(SeenFlags, ENCRYPTION)
        \/ contains(SeenFlags, UNSYNCHRONIZATION))
        => (last.out = "Err" /\ last.reason = "UnsupportedFrameFeature")

-----------------------------------------------------------------------------
(* One frame at a time: a Parser of v24.rs over a buffer that holds a      *)
(* single frame without flags, its body drawn from bounded sets.           *)

MaxPayload == 4

\* the byte strings over an alphabet, up to n bytes long
Payloads(alphabet, n) == UNION {[1 .. k -> alphabet] : k \in 0 .. n}

\* 0x00, 'A', and the two bytes of a byte order mark
TextBytes == {0, 65, 254, 255}

\* 0x00, 'A', 'B'
MapBytes == {0, 65, 66}

\* "eng"
Lang == <<101, 110, 103>>

\* "2021-06-15T10:20:30"
DateTemplate ==
    <<50, 48, 50, 49, 45, 48, 54, 45, 49, 53, 84, 49, 48, 58, 50, 48, 58, 51, 48>>

\* the prefixes of the template, each also with one byte replaced by 'x' or '+'
DateStrings ==
    {SubSeq(DateTemplate, 1, n) : n \in 0 .. Len(DateTemplate)}
    \cup UNION {{[SubSeq(DateTemplate, 1, n) EXCEPT ![i] = c] :
                    i \in 1 .. n, c \in {120, 43}} : n \in 1 .. Len(DateTemplate)}

\* "2021  AB": a year, two spaces, a message
CopyrightTemplate == <<50, 48, 50, 49, 32, 32, 65, 66>>

\* the prefixes of the template, each also with one byte replaced by 'x', and
\* "2021AB", "1999 B"
CopyrightStrings ==
    {SubSeq(CopyrightTemplate, 1, n) : n \in 0 .. Len(CopyrightTemplate)}
    \cup UNION {{[SubSeq(CopyrightTemplate, 1, n) EXCEPT ![i] = 120] : i \in 1 .. n} :
                   n \in 1 .. Len(CopyrightTemplate)}
    \cup {<<50, 48, 50, 49, 65, 66>>, <<49, 57, 57, 57, 32, 66>>}

\* one segment, with or without its terminator, or two segments
CopyrightPayloads ==
    CopyrightStrings
    \cup {c \o <<0>> : c \in CopyrightStrings}
    \cup {c \o <<0>> \o d : c \in CopyrightStrings,
                            d \in {<<49, 57, 57, 57, 32, 66>>, <<50, 48, 50>>}}

FrameInputs ==
    {[name |-> name, body |-> <<enc>> \o p] :
        name \in {FrameId.TIT2, FrameId.TXXX}, enc \in 0 .. 3,
        p \in Payloads(TextBytes, MaxPayload)}
    \cup {[name |-> FrameId.COMM, body |-> <<enc>> \o Lang \o p] :
             enc \in 0 .. 3, p \in Payloads(TextBytes, MaxPayload)}
    \cup {[name |-> FrameId.COMM, body |-> SubSeq(<<3>> \o Lang, 1, n)] : n \in 1 .. 4}
    \cup {[name |-> FrameId.TIPL, body |-> <<enc>> \o p] :
             enc \in {0, 3}, p \in Payloads(MapBytes, MaxPayload)}
    \cup {[name |-> FrameId.TDRC, body |-> <<3>> \o d] : d \in DateStrings}
    \cup {[name |-> FrameId.TCOP, body |-> <<3>> \o c] : c \in CopyrightPayloads}

\* parse_source has returned a Parser over the buffer, v24.rs iterates it
InitFrame ==
    /\ content \in {FrameOf(f.name, Len(f.body), 0, f.body) : f \in FrameInputs}
    /\ source = TagSource(ID3, 4, 0, 0, Len(content), content)
    /\ nread = Len(source)
    /\ tag = [kind |-> "Ok", ver |-> 4]
    /\ parser = "v24"
    /\ cursor = 0
    /\ pre = 0
    /\ last = NotCalled
    /\ emitted = 0
    /\ sync_in = <<0, 0, 0, 0>>
    /\ sync_out = <<>>

NextFrame == v24_next

SpecFrame == InitFrame /\ [][NextFrame]_vars

\* the first call of next has returned; the frame it saw is the whole buffer
FirstFrame == FrameSeen /\ pre = 0 /\ Len(content) = 10 + SeenSize

\* that frame's identifier, body, encoding byte, and the bytes after it
FrameName == Slice(content, 0, 4)

FrameBody == Slice(content, 10, Len(content))

\* the width of the terminator the encoding byte asks for
TerminatorWidth(enc) == IF enc \in {1, 2} THEN 2 ELSE 1

\* the offsets in p of its terminators: w zero bytes at a multiple of w
Terminators(p, w) ==
    {o \in 0 .. Len(p) - w : o % w = 0 /\ \A j \in 1 .. w : p[o + j] = 0}

EndsWithTerminator(p, w) == Len(p) - w \in Terminators(p, w)

\* a frame of the identifier with a known encoding byte, decoded by the first call
Decoded(name) ==
    /\ FirstFrame /\ FrameName = name
    /\ Len(FrameBody) >= 1 /\ FrameBody[1] \in 0 .. 3

\* C15: the number of strings a text frame yields is the number of terminators
\* of its payload, plus one when the payload does not end with a terminator;
\* the empty payload yields one (empty) string.
C15_SegmentCount ==
    (Decoded(FrameId.TIT2) /\ last.out = "Ok")
        => Len(last.value) =
              Cardinality(Terminators(Tail(FrameBody), TerminatorWidth(FrameBody[1])))
              + (IF EndsWithTerminator(Tail(FrameBody), TerminatorWidth(FrameBody[1]))
                 THEN 0 ELSE 1)

\* the code units hi * 256 + lo of an even number of bytes
BigEndianUnits(p) == [i \in 1 .. Len(p) \div 2 |-> p[2 * i - 1] * 256 + p[2 * i]]

\* one UTF-16 segment: an even, positive number of bytes without a terminator
OneUtf16Segment(p) == Len(p) >= 2 /\ Len(p) % 2 = 0 /\ Terminators(p, 2) = {}

\* C16: a payload in big-endian UTF-16 decodes to the code units hi * 256 + lo,
\* under encoding 2, and under encoding 1 after a big-endian byte order mark,
\* which is removed.
C16_BigEndianUnits ==
    /\ (Decoded(FrameId.TIT2) /\ FrameBody[1] = 2 /\ OneUtf16Segment(Tail(FrameBody)))
          => (last.out = "Ok" /\ last.value = <<BigEndianUnits(Tail(FrameBody))>>)
    /\ (/\ Decoded(FrameId.TIT2) /\ FrameBody[1] = 1
        /\ OneUtf16Segment(Tail(FrameBody))
        /\ SubSeq(FrameBody, 2, 3) = <<254, 255>>)
          => (last.out = "Ok" /\ last.value = <<Tail(BigEndianUnits(Tail(FrameBody)))>>)

\* the bytes of p before its i-th terminator and after the one before it
RECURSIVE TerminatedSegments(_)
TerminatedSegments(p) ==
    IF Terminators(p, 1) = {} THEN <<>>
    ELSE <<SubSeq(p, 1, SetMin(Terminators(p, 1)))>>
         \o TerminatedSegments(SubSeq(p, SetMin(Terminators(p, 1)) + 2, Len(p)))

\* the bytes of p after its last terminator
RECURSIVE UnterminatedTail(_)
UnterminatedTail(p) ==
    IF Terminators(p, 1) = {} THEN p
    ELSE UnterminatedTail(SubSeq(p, SetMin(Terminators(p, 1)) + 2, Len(p)))

\* the map of the pairs (s[1], s[2]), (s[3], s[4]), ..: a later pair replaces
\* an earlier one with the same key
RECURSIVE PairsMap(_, _)
PairsMap(s, map) ==
    IF Len(s) < 2 THEN map
    ELSE PairsMap(SubSeq(s, 3, Len(s)), MapInsert(map, s[1], s[2]))

\* a TIPL frame of single-byte characters
MapDecoded == Decoded(FrameId.TIPL) /\ FrameBody[1] \in {0, 3}

\* C17: a map frame yields the map from key i to value i, each exactly the
\* bytes between its terminator and the terminator (or encoding byte) before
\* it; a last key followed by a non-empty unterminated tail has the tail as
\* its value.
C17_MapPairs ==
    /\ (MapDecoded /\ Len(TerminatedSegments(Tail(FrameBody))) % 2 = 0
                   /\ UnterminatedTail(Tail(FrameBody)) = <<>>)
          => (last.out = "Ok"
              /\ last.value = PairsMap(TerminatedSegments(Tail(FrameBody)), {}))
    /\ (MapDecoded /\ Len(TerminatedSegments(Tail(FrameBody))) % 2 = 1
                   /\ UnterminatedTail(Tail(FrameBody)) # <<>>)
          => (last.out = "Ok"
              /\ last.value = PairsMap(TerminatedSegments(Tail(FrameBody))
                                       \o <<UnterminatedTail(Tail(FrameBody))>>, {}))

\* C18: a map frame with an odd number of terminated segments and nothing
\* after the last terminator fails with MissingValueInMapFrame.
C18_MissingValue ==
    (MapDecoded /\ Len(TerminatedSegments(Tail(FrameBody))) % 2 = 1
                /\ UnterminatedTail(Tail(FrameBody)) = <<>>)
        => (last.out = "Err" /\ last.reason = "MissingValueInMapFrame")

\* the bytes of a COMM, USLT or TXXX body before the description: the encoding
\* byte, and the language of COMM and USLT
DescriptionOffset(name) == IF name = FrameId.TXXX THEN 1 ELSE 4

\* the bytes that hold the description, its terminator and the text
DescribedBytes == SubSeq(FrameBody, DescriptionOffset(FrameName) + 1, Len(FrameBody))

\* the description and the text of the bytes p, split at the first terminator
DescriptionTextOf(enc, p, w) ==
    IF Terminators(p, w) = {} THEN Err("MissingNullTerminator")
    ELSE DescriptionFrom(
            decode_text_segment(enc, SubSeq(p, 1, SetMin(Terminators(p, w)))),
            decode_text_segments(enc, SubSeq(p, SetMin(Terminators(p, w)) + w + 1,
                                             Len(p))))

\* the call returned r: its description and text, its error, or its panic
ReturnedDescription(r) ==
    /\ last.out = r.kind
    /\ last.reason = r.reason
    /\ IF r.kind = "Ok"
       THEN last.value.description = r.value.description
            /\ last.value.text = r.value.text
       ELSE last.value = r.value

DescriptionFrames == {FrameId.COMM, FrameId.TXXX}

Numeral(bytes) == IF bytes # <<>> /\ bytes[1] = 43 THEN Tail(bytes) ELSE bytes

IsNumeral(bytes) ==
    Numeral(bytes) # <<>> /\ \A i \in 1 .. Len(Numeral(bytes)) : Numeral(bytes)[i] \in 48 .. 57

RECURSIVE DecimalValue(_)
DecimalValue(digits) ==
    IF digits = <<>> THEN 0
    ELSE 10 * DecimalValue(SubSeq(digits, 1, Len(digits) - 1))
         + (digits[Len(digits)] - 48)

\* the fixed positions of month, day, hour, minutes, seconds
DatePositions == <<<<5, 7>>, <<8, 10>>, <<11, 13>>, <<14, 16>>, <<17, 19>>>>

\* the bytes of s at the positions [from, to), when s is that long
Present(s, from, to) == Len(s) >= to

\* None for a slice beyond the end, Some(n) for the numeral at [from, to)
OptionalField(s, from, to) ==
    IF Present(s, from, to) THEN <<DecimalValue(Numeral(SubSeq(s, from + 1, to)))>>
    ELSE <<>>

\* the string of a TDRC frame in UTF-8 that holds one string
DateString == Tail(FrameBody)

DateDecoded ==
    /\ Decoded(FrameId.TDRC) /\ FrameBody[1] = 3
    /\ DateString # <<>> /\ \A i \in 1 .. Len(DateString) : DateString[i] \in 1 .. 127

\* C20: a Date is read at the positions [0,4), [5,7), [8,10), [11,13), [14,16),
\* [17,19) of the string: shorter than four bytes, MissingYear; a position
\* beyond the end, None; a slice that is there and is not an integer,
\* ParseIntError.
C20_DatePositions ==
    DateDecoded =>
        IF Len(DateString) < 4
        THEN last.out = "Err" /\ last.reason = "ParseDateError"
             /\ last.value = "MissingYear"
        ELSE IF \/ ~IsNumeral(SubSeq(DateString, 1, 4))
                \/ \E i \in 1 .. 5 :
                      /\ Present(DateString, DatePositions[i][1], DatePositions[i][2])
                      /\ ~IsNumeral(SubSeq(DateString, DatePositions[i][1] + 1,
                                           DatePositions[i][2]))
        THEN last.out = "Err" /\ last.reason = "ParseDateError"
             /\ last.value = "ParseIntError"
        ELSE /\ last.out = "Ok"
             /\ last.value =
                   <<[year |-> DecimalValue(Numeral(SubSeq(DateString, 1, 4))),
                      month |-> OptionalField(DateString, 5, 7),
                      day |-> OptionalField(DateString, 8, 10),
                      hour |-> OptionalField(DateString, 11, 13),
                      minutes |-> OptionalField(DateString, 14, 16),
                      seconds |-> OptionalField(DateString, 17, 19)]>>

\* "2021-06": year 2021, month Some(6), None for the rest
C20_Witness ==
    /\ DateDecoded /\ DateString = SubSeq(DateTemplate, 1, 7)
    /\ last.out = "Ok"
    /\ last.value = <<[year |-> 2021, month |-> <<6>>, day |-> <<>>, hour |-> <<>>,
                       minutes |-> <<>>, seconds |-> <<>>]>>

\* the segments of a single-byte payload: the terminated ones, and the tail
\* when it is not empty
SegmentsOf(p) ==
    TerminatedSegments(p)
    \o (IF UnterminatedTail(p) = <<>> THEN <<>> ELSE <<UnterminatedTail(p)>>)

StartsWithYear(seg) == Len(seg) >= 4 /\ \A i \in 1 .. 4 : seg[i] \in 48 .. 57

\* the year of the first four digits, and the rest after at most one space
CopyrightExpected(seg) ==
    [year |-> DecimalValue(SubSeq(seg, 1, 4)),
     message |-> IF Len(seg) > 4 /\ seg[5] = 32 THEN SubSeq(seg, 6, Len(seg))
                 ELSE SubSeq(seg, 5, Len(seg))]

\* a TCOP frame in UTF-8 each of whose segments is shorter than four bytes or
\* starts with four digits
CopyrightDecoded ==
    /\ Decoded(FrameId.TCOP) /\ FrameBody[1] = 3
    /\ \A i \in 1 .. Len(SegmentsOf(Tail(FrameBody))) :
          \/ Len(SegmentsOf(Tail(FrameBody))[i]) < 4
          \/ StartsWithYear(SegmentsOf(Tail(FrameBody))[i])

\* C21: a TCOP/TPRO segment that starts with four decimal digits gives year =
\* their value and message = the rest, less at most one leading space; a
\* segment shorter than four bytes fails with FrameTooSmall.
C21_Copyright ==
    CopyrightDecoded =>
        IF \E i \in 1 .. Len(SegmentsOf(Tail(FrameBody))) :
              Len(SegmentsOf(Tail(FrameBody))[i]) < 4
        THEN last.out = "Err" /\ last.reason = "FrameTooSmall"
        ELSE /\ last.out = "Ok"
             /\ last.value = [i \in 1 .. Len(SegmentsOf(Tail(FrameBody))) |->
                                 CopyrightExpected(SegmentsOf(Tail(FrameBody))[i])]

\* "2021  AB": year 2021, and the second space kept in the message " AB"
C21_Witness ==
    /\ CopyrightDecoded /\ Tail(FrameBody) = CopyrightTemplate
    /\ last.out = "Ok"
    /\ last.value = <<[year |-> 2021, message |-> <<32, 65, 66>>]>>

\* the cursor of a v2.4 Parser whose calls of next all returned is inside the
\* buffer, its end included
CursorInBuffer ==
    (parser = "v24" /\ last.out # "Panic") => (0 <= cursor /\ cursor <= Len(content))

\* next leaves the buffer as it is
ContentKept == parser = "v24" => content' = content

\* C22: in every reachable state of a v2.4 Parser, after any sequence of calls
\* of next that returned, 0 <= cursor <= content.len(), and next never
\* modifies the buffer.
C22_CursorInBuffer == []CursorInBuffer /\ [][ContentKept]_vars

\* two frames were emitted and the cursor is at the end of the buffer
C22_Witness ==
    /\ parser = "v24" /\ last.out = "Ok" /\ emitted = 2
    /\ Len(content) > 0 /\ cursor = Len(content)

\* the call of next that returned an emission moved the cursor by 10 or more
EmissionAdvances ==
    (parser = "v24" /\ last.out \in {"Ok", "Err"}) => cursor >= pre + 10

\* a buffer of length L has given at most L / 10 emissions
EmissionsBounded ==
    parser = "v24" => (10 * emitted <= cursor /\ emitted <= Len(content) \div 10)

\* the iteration of main.rs (`for frame in parser`) has returned end-of-stream
\* or can go on to it: no call of next was cut off by a panic
IterationGoesOn == parser = "v24" => last.out # "Panic"

\* C23: iteration always terminates: every call of next that returns an
\* emission increases the cursor by at least 10, so for a buffer of length L
\* next returns end-of-stream after at most L / 10 emissions, whatever the
\* buffer holds.
C23_Terminates == EmissionAdvances /\ EmissionsBounded /\ IterationGoesOn

-----------------------------------------------------------------------------
(* synchsafe_u32_to_u32 on its own: every four-byte input over SyncBytes.  *)

SyncBytes == {0, 1, 64, 85, 127, 128, 255}

InitSync ==
    /\ sync_in \in {<<b3, b2, b1, b0>> : b3 \in SyncBytes, b2 \in SyncBytes,
                                         b1 \in SyncBytes, b0 \in SyncBytes}
    /\ sync_out = <<>>
    /\ source = <<>>
    /\ nread = 0
    /\ tag = [kind |-> "NotRun", ver |-> 0]
    /\ parser = "none"
    /\ content = <<>>
    /\ cursor = 0
    /\ pre = 0
    /\ last = NotCalled
    /\ emitted = 0

Decode ==
    /\ sync_out = <<>>
    /\ sync_out' = <<synchsafe_u32_to_u32(read_u32(sync_in))>>
    /\ UNCHANGED <<source, nread, tag, parser, content, cursor, pre, last, emitted,
                   sync_in>>

NextSync == Decode

SpecSync == InitSync /\ [][NextSync]_vars

\* C5: for every 32-bit input whose four bytes b3 b2 b1 b0 (most significant
\* first) are each <= 0x7F, synchsafe_u32_to_u32 returns
\* b3*2^21 + b2*2^14 + b1*2^7 + b0, which lies in [0, 2^28); and it maps
\* 0x7F7F7F7F to 0x0FFFFFFF.
C5_SynchsafeDecode ==
    (sync_out # <<>> /\ \A i \in 1 .. 4 : sync_in[i] <= 127)
        => /\ sync_out[1] = sync_in[1] * 2097152 + sync_in[2] * 16384
                            + sync_in[3] * 128 + sync_in[4]
           /\ sync_out[1] >= 0 /\ sync_out[1] < 268435456
           /\ sync_in = <<127, 127, 127, 127>> => sync_out[1] = 268435455

\* 0x7F7F7F7F was decoded to 0x0FFFFFFF
C5_Witness == sync_in = <<127, 127, 127, 127>> /\ sync_out = <<268435455>>


=============================================================================
